---- MODULE Spec2Model ----
(***************************************************************************)
(* Constant-product AMM arithmetic: the fee engine (curve/fees.rs), the    *)
(* fee-free curve and the liquidity conversion (curve/constant_product.rs) *)
(* and the swap orchestrator (curve/calculator.rs).                        *)
(*                                                                         *)
(* Every operation is a pure function of its arguments.  A behaviour of    *)
(* the model is one call: the caller picks an operation and its arguments, *)
(* the operation runs to its outcome.  An outcome is one of                *)
(*    <<"Some", v>>   the call returned v (Some(v) for an Option, or the   *)
(*                    plain value of a function returning u128),           *)
(*    <<"None">>      the call returned None to its caller,                *)
(*    <<"Panic">>     the call aborted (an unwrap() of None).              *)
(*                                                                         *)
(* u128 and u64 are scaled to the widths U128_MAX and U64_MAX so that the  *)
(* checked operations overflow inside the range of the model checker's     *)
(* integers; (U64_MAX + 1)^2 <= U128_MAX + 1 as for the real widths.       *)
(* The fee denominator and the fee rates keep their real values.           *)
(***************************************************************************)
EXTENDS Integers, Sequences, FiniteSets, TLC

VARIABLES op, args, result

vars == <<op, args, result>>

\* ---------------------------------------------------------------- widths
U128_MAX == 536870911

U64_MAX == 16383

\* Largest small amount the caller supplies to the swaps and the fee engine.
MaxAmount == 5

\* An amount whose product with a fee rate of a quarter still fits.
MidAmount == 1000

\* Largest small amount the caller supplies to the liquidity conversion.
MaxLpAmount == 6

\* ------------------------------------------------------------- constants
FEE_RATE_DENOMINATOR_VALUE == 1000000

\* ------------------------------------------------------ outcomes, Option
Some(v) == <<"Some", v>>

None == <<"None">>

Panic == <<"Panic">>

IsSome(r) == r[1] = "Some"

\* The `?` operator and the sequencing of statements: the function goes on
\* to `next` when r holds a value, and ends with r (None, or an abort
\* further in) when it does not.
Try(r, next) == IF IsSome(r) THEN next ELSE r

\* Option::unwrap(): None aborts the call.
unwrap(r) == IF r = None THEN Panic ELSE r

\* ------------------------------------------- checked arithmetic on u128
checked_mul(a, b) == IF b # 0 /\ a > U128_MAX \div b THEN None ELSE Some(a * b)

checked_add(a, b) == IF a + b > U128_MAX THEN None ELSE Some(a + b)

checked_sub(a, b) == IF b > a THEN None ELSE Some(a - b)

checked_div(a, b) == IF b = 0 THEN None ELSE Some(a \div b)

checked_rem(a, b) == IF b = 0 THEN None ELSE Some(a % b)

\* `x += 1` on a u128: an overflow aborts (overflow checks on).
add_assign(a, b) == IF a + b > U128_MAX THEN Panic ELSE Some(a + b)

\* utils::CheckedCeilDiv::checked_ceil_div, first component of its pair:
\* the ceiling of the quotient, None for a zero divisor.
checked_ceil_div(a, b) ==
    IF b = 0 THEN None
    ELSE Some((a \div b) + (IF a % b > 0 THEN 1 ELSE 0))

\* ------------------------------------------------------------ fee engine
\* Mutant: the fee is truncated instead of rounded up.
ceil_div_truncates(token_amount, fee_numerator, fee_denominator) ==
    LET product == unwrap(checked_mul(token_amount, fee_numerator))
    IN  Try(product, checked_div(product[2], fee_denominator))

ceil_div(token_amount, fee_numerator, fee_denominator) ==
    LET product == unwrap(checked_mul(token_amount, fee_numerator))
        sum == Try(product, checked_add(product[2], fee_denominator))
        less_one == Try(sum, checked_sub(sum[2], 1))
    IN  Try(less_one, checked_div(less_one[2], fee_denominator))

\* Mutant: the protocol's share is rounded up instead of truncated.
floor_div_rounds_up(token_amount, fee_numerator, fee_denominator) ==
    LET product == checked_mul(token_amount, fee_numerator)
        sum == Try(product, checked_add(product[2], fee_denominator))
        less_one == Try(sum, checked_sub(sum[2], 1))
    IN  Try(less_one, checked_div(less_one[2], fee_denominator))

floor_div(token_amount, fee_numerator, fee_denominator) ==
    LET product == checked_mul(token_amount, fee_numerator)
    IN  Try(product, checked_div(product[2], fee_denominator))

trading_fee(amount, trade_fee_rate) ==
    ceil_div(amount, trade_fee_rate, FEE_RATE_DENOMINATOR_VALUE)

protocol_fee(amount, protocol_fee_rate) ==
    floor_div(amount, protocol_fee_rate, FEE_RATE_DENOMINATOR_VALUE)

\* Mutant: the gross amount is rounded down instead of up.
calculate_pre_fee_amount_rounds_down(post_fee_amount, trade_fee_rate) ==
    IF trade_fee_rate = 0 THEN Some(post_fee_amount)
    ELSE
        LET numerator == checked_mul(post_fee_amount, FEE_RATE_DENOMINATOR_VALUE)
            denominator == Try(numerator,
                               checked_sub(FEE_RATE_DENOMINATOR_VALUE, trade_fee_rate))
        IN  Try(denominator, checked_div(numerator[2], denominator[2]))

calculate_pre_fee_amount(post_fee_amount, trade_fee_rate) ==
    IF trade_fee_rate = 0 THEN Some(post_fee_amount)
    ELSE
        LET numerator == checked_mul(post_fee_amount, FEE_RATE_DENOMINATOR_VALUE)
            denominator == Try(numerator,
                               checked_sub(FEE_RATE_DENOMINATOR_VALUE, trade_fee_rate))
            sum == Try(denominator, checked_add(numerator[2], denominator[2]))
            less_one == Try(sum, checked_sub(sum[2], 1))
        IN  Try(less_one, checked_div(less_one[2], denominator[2]))

\* ------------------------------------------------- constant-product curve
\* Mutant: the quotient is rounded up instead of truncated.
swap_base_input_without_fees_rounds_up(source_amount, swap_source_amount, swap_destination_amount) ==
    LET numerator == unwrap(checked_mul(source_amount, swap_destination_amount))
        denominator == Try(numerator, unwrap(checked_add(swap_source_amount, source_amount)))
    IN  Try(denominator, unwrap(checked_ceil_div(numerator[2], denominator[2])))

\* Mutant: the divisor is the old source reserve, without the amount paid in.
swap_base_input_without_fees_old_reserve(source_amount, swap_source_amount, swap_destination_amount) ==
    LET numerator == unwrap(checked_mul(source_amount, swap_destination_amount))
        denominator == Try(numerator, unwrap(checked_add(swap_source_amount, 0)))
    IN  Try(denominator, unwrap(checked_div(numerator[2], denominator[2])))

swap_base_input_without_fees(source_amount, swap_source_amount, swap_destination_amount) ==
    LET numerator == unwrap(checked_mul(source_amount, swap_destination_amount))
        denominator == Try(numerator, unwrap(checked_add(swap_source_amount, source_amount)))
    IN  Try(denominator, unwrap(checked_div(numerator[2], denominator[2])))

\* Mutant: the divisor is the old destination reserve, the amount taken
\* out is not subtracted.
swap_base_output_without_fees_old_reserve(destination_amount, swap_source_amount, swap_destination_amount) ==
    LET numerator == unwrap(checked_mul(swap_source_amount, destination_amount))
        denominator == Try(numerator, unwrap(checked_sub(swap_destination_amount, 0)))
    IN  Try(denominator, unwrap(checked_ceil_div(numerator[2], denominator[2])))

\* Mutant: the dividend is taken from the destination reserve instead of
\* the source reserve.
swap_base_output_without_fees_wrong_reserve(destination_amount, swap_source_amount, swap_destination_amount) ==
    LET numerator == unwrap(checked_mul(swap_destination_amount, destination_amount))
        denominator == Try(numerator,
                           unwrap(checked_sub(swap_destination_amount, destination_amount)))
    IN  Try(denominator, unwrap(checked_ceil_div(numerator[2], denominator[2])))

swap_base_output_without_fees(destination_amount, swap_source_amount, swap_destination_amount) ==
    LET numerator == unwrap(checked_mul(swap_source_amount, destination_amount))
        denominator == Try(numerator,
                           unwrap(checked_sub(swap_destination_amount, destination_amount)))
    IN  Try(denominator, unwrap(checked_ceil_div(numerator[2], denominator[2])))

\* Mutant: the rounding direction is ignored, both directions truncate.
lp_tokens_to_trading_tokens_always_floor(lp_token_amount, lp_token_supply, swap_token_0_amount, swap_token_1_amount, round_direction) ==
    LET product_0 == checked_mul(lp_token_amount, swap_token_0_amount)
        token_0_amount == Try(product_0, checked_div(product_0[2], lp_token_supply))
        product_1 == Try(token_0_amount, checked_mul(lp_token_amount, swap_token_1_amount))
        token_1_amount == Try(product_1, checked_div(product_1[2], lp_token_supply))
        token_0_remainder ==
            Try(token_1_amount, checked_rem(product_0[2], lp_token_supply))
        token_0_rounded ==
            Try(token_0_remainder,
                IF token_0_remainder[2] > 0 /\ token_0_amount[2] > 0
                THEN add_assign(token_0_amount[2], 1) ELSE token_0_amount)
        token_1_remainder ==
            Try(token_0_rounded, checked_rem(product_1[2], lp_token_supply))
        token_1_rounded ==
            Try(token_1_remainder,
                IF token_1_remainder[2] > 0 /\ token_1_amount[2] > 0
                THEN add_assign(token_1_amount[2], 1) ELSE token_1_amount)
    IN  IF round_direction \in {"Floor", "Ceiling"}
        THEN Try(token_1_amount,
                 Some([token_0_amount |-> token_0_amount[2],
                       token_1_amount |-> token_1_amount[2]]))
        ELSE Try(token_1_rounded,
                 Some([token_0_amount |-> token_0_rounded[2],
                       token_1_amount |-> token_1_rounded[2]]))

\* Mutant: Ceiling rounds token 0 up and leaves token 1 truncated.
lp_tokens_to_trading_tokens_one_side(lp_token_amount, lp_token_supply, swap_token_0_amount, swap_token_1_amount, round_direction) ==
    LET product_0 == checked_mul(lp_token_amount, swap_token_0_amount)
        token_0_amount == Try(product_0, checked_div(product_0[2], lp_token_supply))
        product_1 == Try(token_0_amount, checked_mul(lp_token_amount, swap_token_1_amount))
        token_1_amount == Try(product_1, checked_div(product_1[2], lp_token_supply))
        token_0_remainder ==
            Try(token_1_amount, checked_rem(product_0[2], lp_token_supply))
        token_0_rounded ==
            Try(token_0_remainder,
                IF token_0_remainder[2] > 0 /\ token_0_amount[2] > 0
                THEN add_assign(token_0_amount[2], 1) ELSE token_0_amount)
        token_1_remainder ==
            Try(token_0_rounded, checked_rem(product_1[2], lp_token_supply))
        token_1_rounded ==
            Try(token_1_remainder,
                IF token_1_remainder[2] > 0 /\ token_1_amount[2] > 0
                THEN token_1_amount ELSE token_1_amount)
    IN  IF round_direction = "Floor"
        THEN Try(token_1_amount,
                 Some([token_0_amount |-> token_0_amount[2],
                       token_1_amount |-> token_1_amount[2]]))
        ELSE Try(token_1_rounded,
                 Some([token_0_amount |-> token_0_rounded[2],
                       token_1_amount |-> token_1_rounded[2]]))

\* Mutant: the two rounding directions are exchanged.
lp_tokens_to_trading_tokens_inverted(lp_token_amount, lp_token_supply, swap_token_0_amount, swap_token_1_amount, round_direction) ==
    LET product_0 == checked_mul(lp_token_amount, swap_token_0_amount)
        token_0_amount == Try(product_0, checked_div(product_0[2], lp_token_supply))
        product_1 == Try(token_0_amount, checked_mul(lp_token_amount, swap_token_1_amount))
        token_1_amount == Try(product_1, checked_div(product_1[2], lp_token_supply))
        token_0_remainder ==
            Try(token_1_amount, checked_rem(product_0[2], lp_token_supply))
        token_0_rounded ==
            Try(token_0_remainder,
                IF token_0_remainder[2] > 0 /\ token_0_amount[2] > 0
                THEN add_assign(token_0_amount[2], 1) ELSE token_0_amount)
        token_1_remainder ==
            Try(token_0_rounded, checked_rem(product_1[2], lp_token_supply))
        token_1_rounded ==
            Try(token_1_remainder,
                IF token_1_remainder[2] > 0 /\ token_1_amount[2] > 0
                THEN add_assign(token_1_amount[2], 1) ELSE token_1_amount)
    IN  IF round_direction = "Ceiling"
        THEN Try(token_1_amount,
                 Some([token_0_amount |-> token_0_amount[2],
                       token_1_amount |-> token_1_amount[2]]))
        ELSE Try(token_1_rounded,
                 Some([token_0_amount |-> token_0_rounded[2],
                       token_1_amount |-> token_1_rounded[2]]))

\* Mutant: Ceiling rounds every remainder up, a zero floored amount too.
lp_tokens_to_trading_tokens_plain_ceiling(lp_token_amount, lp_token_supply, swap_token_0_amount, swap_token_1_amount, round_direction) ==
    LET product_0 == checked_mul(lp_token_amount, swap_token_0_amount)
        token_0_amount == Try(product_0, checked_div(product_0[2], lp_token_supply))
        product_1 == Try(token_0_amount, checked_mul(lp_token_amount, swap_token_1_amount))
        token_1_amount == Try(product_1, checked_div(product_1[2], lp_token_supply))
        token_0_remainder ==
            Try(token_1_amount, checked_rem(product_0[2], lp_token_supply))
        token_0_rounded ==
            Try(token_0_remainder,
                IF token_0_remainder[2] > 0
                THEN add_assign(token_0_amount[2], 1) ELSE token_0_amount)
        token_1_remainder ==
            Try(token_0_rounded, checked_rem(product_1[2], lp_token_supply))
        token_1_rounded ==
            Try(token_1_remainder,
                IF token_1_remainder[2] > 0
                THEN add_assign(token_1_amount[2], 1) ELSE token_1_amount)
    IN  IF round_direction = "Floor"
        THEN Try(token_1_amount,
                 Some([token_0_amount |-> token_0_amount[2],
                       token_1_amount |-> token_1_amount[2]]))
        ELSE Try(token_1_rounded,
                 Some([token_0_amount |-> token_0_rounded[2],
                       token_1_amount |-> token_1_rounded[2]]))

\* u128::saturating_mul, used by the mutant below.
saturating_mul(a, b) == IF b # 0 /\ a > U128_MAX \div b THEN Some(U128_MAX) ELSE Some(a * b)

\* Mutant: the products saturate at u128::MAX instead of failing.
lp_tokens_to_trading_tokens_saturating(lp_token_amount, lp_token_supply, swap_token_0_amount, swap_token_1_amount, round_direction) ==
    LET product_0 == saturating_mul(lp_token_amount, swap_token_0_amount)
        token_0_amount == Try(product_0, checked_div(product_0[2], lp_token_supply))
        product_1 == Try(token_0_amount, saturating_mul(lp_token_amount, swap_token_1_amount))
        token_1_amount == Try(product_1, checked_div(product_1[2], lp_token_supply))
        token_0_remainder ==
            Try(token_1_amount, checked_rem(product_0[2], lp_token_supply))
        token_0_rounded ==
            Try(token_0_remainder,
                IF token_0_remainder[2] > 0 /\ token_0_amount[2] > 0
                THEN add_assign(token_0_amount[2], 1) ELSE token_0_amount)
        token_1_remainder ==
            Try(token_0_rounded, checked_rem(product_1[2], lp_token_supply))
        token_1_rounded ==
            Try(token_1_remainder,
                IF token_1_remainder[2] > 0 /\ token_1_amount[2] > 0
                THEN add_assign(token_1_amount[2], 1) ELSE token_1_amount)
    IN  IF round_direction = "Floor"
        THEN Try(token_1_amount,
                 Some([token_0_amount |-> token_0_amount[2],
                       token_1_amount |-> token_1_amount[2]]))
        ELSE Try(token_1_rounded,
                 Some([token_0_amount |-> token_0_rounded[2],
                       token_1_amount |-> token_1_rounded[2]]))

\* The Ceiling arm multiplies each side again before its remainder: the
\* same product, which succeeded the first time.
lp_tokens_to_trading_tokens(lp_token_amount, lp_token_supply, swap_token_0_amount, swap_token_1_amount, round_direction) ==
    LET product_0 == checked_mul(lp_token_amount, swap_token_0_amount)
        token_0_amount == Try(product_0, checked_div(product_0[2], lp_token_supply))
        product_1 == Try(token_0_amount, checked_mul(lp_token_amount, swap_token_1_amount))
        token_1_amount == Try(product_1, checked_div(product_1[2], lp_token_supply))
        token_0_remainder ==
            Try(token_1_amount, checked_rem(product_0[2], lp_token_supply))
        token_0_rounded ==
            Try(token_0_remainder,
                IF token_0_remainder[2] > 0 /\ token_0_amount[2] > 0
                THEN add_assign(token_0_amount[2], 1) ELSE token_0_amount)
        token_1_remainder ==
            Try(token_0_rounded, checked_rem(product_1[2], lp_token_supply))
        token_1_rounded ==
            Try(token_1_remainder,
                IF token_1_remainder[2] > 0 /\ token_1_amount[2] > 0
                THEN add_assign(token_1_amount[2], 1) ELSE token_1_amount)
    IN  IF round_direction = "Floor"
        THEN Try(token_1_amount,
                 Some([token_0_amount |-> token_0_amount[2],
                       token_1_amount |-> token_1_amount[2]]))
        ELSE Try(token_1_rounded,
                 Some([token_0_amount |-> token_0_rounded[2],
                       token_1_amount |-> token_1_rounded[2]]))

\* ------------------------------------------------------ swap orchestrator
\* Mutant: the curve is handed the two reserves in the wrong order.
swap_base_input_reserves_exchanged(source_amount, swap_source_amount, swap_destination_amount, trade_fee_rate, protocol_fee_rate) ==
    LET trade_fee == trading_fee(source_amount, trade_fee_rate)
        protocol_fee_amount == Try(trade_fee, protocol_fee(trade_fee[2], protocol_fee_rate))
        source_amount_less_fees ==
            Try(protocol_fee_amount, checked_sub(source_amount, trade_fee[2]))
        destination_amount_swapped ==
            Try(source_amount_less_fees,
                swap_base_input_without_fees(source_amount_less_fees[2],
                                             swap_destination_amount, swap_source_amount))
        new_swap_source_amount ==
            Try(destination_amount_swapped, checked_add(swap_source_amount, source_amount))
        new_swap_destination_amount ==
            Try(new_swap_source_amount,
                checked_sub(swap_destination_amount, destination_amount_swapped[2]))
    IN  Try(new_swap_destination_amount,
            Some([new_swap_source_amount |-> new_swap_source_amount[2],
                  new_swap_destination_amount |-> new_swap_destination_amount[2],
                  source_amount_swapped |-> source_amount,
                  destination_amount_swapped |-> destination_amount_swapped[2],
                  trade_fee |-> trade_fee[2],
                  protocol_fee |-> protocol_fee_amount[2]]))

\* Mutant: only the amount net of fees is added to the source reserve.
swap_base_input_net_of_fees(source_amount, swap_source_amount, swap_destination_amount, trade_fee_rate, protocol_fee_rate) ==
    LET trade_fee == trading_fee(source_amount, trade_fee_rate)
        protocol_fee_amount == Try(trade_fee, protocol_fee(trade_fee[2], protocol_fee_rate))
        source_amount_less_fees ==
            Try(protocol_fee_amount, checked_sub(source_amount, trade_fee[2]))
        destination_amount_swapped ==
            Try(source_amount_less_fees,
                swap_base_input_without_fees(source_amount_less_fees[2],
                                             swap_source_amount, swap_destination_amount))
        new_swap_source_amount ==
            Try(destination_amount_swapped,
                checked_add(swap_source_amount, source_amount_less_fees[2]))
        new_swap_destination_amount ==
            Try(new_swap_source_amount,
                checked_sub(swap_destination_amount, destination_amount_swapped[2]))
    IN  Try(new_swap_destination_amount,
            Some([new_swap_source_amount |-> new_swap_source_amount[2],
                  new_swap_destination_amount |-> new_swap_destination_amount[2],
                  source_amount_swapped |-> source_amount,
                  destination_amount_swapped |-> destination_amount_swapped[2],
                  trade_fee |-> trade_fee[2],
                  protocol_fee |-> protocol_fee_amount[2]]))

swap_base_input(source_amount, swap_source_amount, swap_destination_amount, trade_fee_rate, protocol_fee_rate) ==
    LET trade_fee == trading_fee(source_amount, trade_fee_rate)
        protocol_fee_amount == Try(trade_fee, protocol_fee(trade_fee[2], protocol_fee_rate))
        source_amount_less_fees ==
            Try(protocol_fee_amount, checked_sub(source_amount, trade_fee[2]))
        destination_amount_swapped ==
            Try(source_amount_less_fees,
                swap_base_input_without_fees(source_amount_less_fees[2],
                                             swap_source_amount, swap_destination_amount))
        new_swap_source_amount ==
            Try(destination_amount_swapped, checked_add(swap_source_amount, source_amount))
        new_swap_destination_amount ==
            Try(new_swap_source_amount,
                checked_sub(swap_destination_amount, destination_amount_swapped[2]))
    IN  Try(new_swap_destination_amount,
            Some([new_swap_source_amount |-> new_swap_source_amount[2],
                  new_swap_destination_amount |-> new_swap_destination_amount[2],
                  source_amount_swapped |-> source_amount,
                  destination_amount_swapped |-> destination_amount_swapped[2],
                  trade_fee |-> trade_fee[2],
                  protocol_fee |-> protocol_fee_amount[2]]))

\* Mutant: the trade fee is charged on the curve's input, not on the gross
\* amount.
swap_base_output_fee_on_net(destination_amount, swap_source_amount, swap_destination_amount, trade_fee_rate, protocol_fee_rate) ==
    LET source_amount_swapped ==
            swap_base_output_without_fees(destination_amount, swap_source_amount,
                                          swap_destination_amount)
        source_amount ==
            Try(source_amount_swapped,
                unwrap(calculate_pre_fee_amount(source_amount_swapped[2], trade_fee_rate)))
        trade_fee == Try(source_amount,
                         trading_fee(source_amount_swapped[2], trade_fee_rate))
        protocol_fee_amount == Try(trade_fee, protocol_fee(trade_fee[2], protocol_fee_rate))
        new_swap_source_amount ==
            Try(protocol_fee_amount, checked_add(swap_source_amount, source_amount[2]))
        new_swap_destination_amount ==
            Try(new_swap_source_amount,
                checked_sub(swap_destination_amount, destination_amount))
    IN  Try(new_swap_destination_amount,
            Some([new_swap_source_amount |-> new_swap_source_amount[2],
                  new_swap_destination_amount |-> new_swap_destination_amount[2],
                  source_amount_swapped |-> source_amount[2],
                  destination_amount_swapped |-> destination_amount,
                  trade_fee |-> trade_fee[2],
                  protocol_fee |-> protocol_fee_amount[2]]))

swap_base_output(destination_amount, swap_source_amount, swap_destination_amount, trade_fee_rate, protocol_fee_rate) ==
    LET source_amount_swapped ==
            swap_base_output_without_fees(destination_amount, swap_source_amount,
                                          swap_destination_amount)
        source_amount ==
            Try(source_amount_swapped,
                unwrap(calculate_pre_fee_amount(source_amount_swapped[2], trade_fee_rate)))
        trade_fee == Try(source_amount, trading_fee(source_amount[2], trade_fee_rate))
        protocol_fee_amount == Try(trade_fee, protocol_fee(trade_fee[2], protocol_fee_rate))
        new_swap_source_amount ==
            Try(protocol_fee_amount, checked_add(swap_source_amount, source_amount[2]))
        new_swap_destination_amount ==
            Try(new_swap_source_amount,
                checked_sub(swap_destination_amount, destination_amount))
    IN  Try(new_swap_destination_amount,
            Some([new_swap_source_amount |-> new_swap_source_amount[2],
                  new_swap_destination_amount |-> new_swap_destination_amount[2],
                  source_amount_swapped |-> source_amount[2],
                  destination_amount_swapped |-> destination_amount,
                  trade_fee |-> trade_fee[2],
                  protocol_fee |-> protocol_fee_amount[2]]))

\* ------------------------------------------------------ the caller's inputs
Amounts == (0 .. MaxAmount) \cup {MidAmount, U128_MAX}

\* The fee engine is also called at the two edges of its accumulator: the
\* largest amount whose product with the denominator fits, and the amount
\* which, at rate 1, fits only as long as less than the denominator is added.
FeeAmounts ==
    Amounts \cup {U128_MAX \div FEE_RATE_DENOMINATOR_VALUE,
                  U128_MAX - FEE_RATE_DENOMINATOR_VALUE + 1}

\* The small amounts, the supply 10 and the reserve 49 of the conversion's
\* own tests (trading_token_conversion, fail_trading_token_conversion), and
\* u128::MAX.
LpAmounts == (0 .. MaxLpAmount) \cup {10, 49, U128_MAX}

TradeFeeRates == {0, 1, 2500, 250000, 500000,
                  FEE_RATE_DENOMINATOR_VALUE - 1,
                  FEE_RATE_DENOMINATOR_VALUE,
                  FEE_RATE_DENOMINATOR_VALUE + 1}

ProtocolFeeRates == {0, 120000, FEE_RATE_DENOMINATOR_VALUE, 2 * FEE_RATE_DENOMINATOR_VALUE}

RoundDirection == {"Floor", "Ceiling"}

TradeDirection == {"ZeroForOne", "OneForZero"}

\* ------------------------------------------------------------------ calls
Init ==
    /\ op = "none"
    /\ args = <<>>
    /\ result = <<"NoCall">>

TradingFee ==
    /\ op = "none"
    /\ \E amount \in FeeAmounts, trade_fee_rate \in TradeFeeRates :
        /\ op' = "trading_fee"
        /\ args' = [amount |-> amount, trade_fee_rate |-> trade_fee_rate]
        /\ result' = trading_fee(amount, trade_fee_rate)

ProtocolFee ==
    /\ op = "none"
    /\ \E amount \in FeeAmounts, protocol_fee_rate \in ProtocolFeeRates :
        /\ op' = "protocol_fee"
        /\ args' = [amount |-> amount, protocol_fee_rate |-> protocol_fee_rate]
        /\ result' = protocol_fee(amount, protocol_fee_rate)

CalculatePreFeeAmount ==
    /\ op = "none"
    /\ \E post_fee_amount \in FeeAmounts, trade_fee_rate \in TradeFeeRates :
        /\ op' = "calculate_pre_fee_amount"
        /\ args' = [post_fee_amount |-> post_fee_amount, trade_fee_rate |-> trade_fee_rate]
        /\ result' = calculate_pre_fee_amount(post_fee_amount, trade_fee_rate)

SwapBaseInputWithoutFees ==
    /\ op = "none"
    /\ \E source_amount \in Amounts, swap_source_amount \in Amounts,
          swap_destination_amount \in Amounts :
        /\ op' = "swap_base_input_without_fees"
        /\ args' = [source_amount |-> source_amount,
                    swap_source_amount |-> swap_source_amount,
                    swap_destination_amount |-> swap_destination_amount]
        /\ result' = swap_base_input_without_fees(source_amount, swap_source_amount,
                                                  swap_destination_amount)

SwapBaseOutputWithoutFees ==
    /\ op = "none"
    /\ \E destination_amount \in Amounts, swap_source_amount \in Amounts,
          swap_destination_amount \in Amounts :
        /\ op' = "swap_base_output_without_fees"
        /\ args' = [destination_amount |-> destination_amount,
                    swap_source_amount |-> swap_source_amount,
                    swap_destination_amount |-> swap_destination_amount]
        /\ result' = swap_base_output_without_fees(destination_amount, swap_source_amount,
                                                   swap_destination_amount)

LpTokensToTradingTokens ==
    /\ op = "none"
    /\ \E lp_token_amount \in LpAmounts, lp_token_supply \in LpAmounts,
          swap_token_0_amount \in LpAmounts, swap_token_1_amount \in LpAmounts,
          round_direction \in RoundDirection :
        /\ op' = "lp_tokens_to_trading_tokens"
        /\ args' = [lp_token_amount |-> lp_token_amount,
                    lp_token_supply |-> lp_token_supply,
                    swap_token_0_amount |-> swap_token_0_amount,
                    swap_token_1_amount |-> swap_token_1_amount,
                    round_direction |-> round_direction]
        /\ result' = lp_tokens_to_trading_tokens(lp_token_amount, lp_token_supply,
                         swap_token_0_amount, swap_token_1_amount, round_direction)

SwapBaseInput ==
    /\ op = "none"
    /\ \E source_amount \in Amounts, swap_source_amount \in Amounts,
          swap_destination_amount \in Amounts,
          trade_fee_rate \in TradeFeeRates, protocol_fee_rate \in ProtocolFeeRates :
        /\ op' = "swap_base_input"
        /\ args' = [source_amount |-> source_amount,
                    swap_source_amount |-> swap_source_amount,
                    swap_destination_amount |-> swap_destination_amount,
                    trade_fee_rate |-> trade_fee_rate,
                    protocol_fee_rate |-> protocol_fee_rate]
        /\ result' = swap_base_input(source_amount, swap_source_amount,
                         swap_destination_amount, trade_fee_rate, protocol_fee_rate)

SwapBaseOutput ==
    /\ op = "none"
    /\ \E destination_amount \in Amounts, swap_source_amount \in Amounts,
          swap_destination_amount \in Amounts,
          trade_fee_rate \in TradeFeeRates, protocol_fee_rate \in ProtocolFeeRates :
        /\ op' = "swap_base_output"
        /\ args' = [destination_amount |-> destination_amount,
                    swap_source_amount |-> swap_source_amount,
                    swap_destination_amount |-> swap_destination_amount,
                    trade_fee_rate |-> trade_fee_rate,
                    protocol_fee_rate |-> protocol_fee_rate]
        /\ result' = swap_base_output(destination_amount, swap_source_amount,
                         swap_destination_amount, trade_fee_rate, protocol_fee_rate)

Next ==
    \/ TradingFee
    \/ ProtocolFee
    \/ CalculatePreFeeAmount
    \/ SwapBaseInputWithoutFees
    \/ SwapBaseOutputWithoutFees
    \/ LpTokensToTradingTokens
    \/ SwapBaseInput
    \/ SwapBaseOutput

Spec == Init /\ [][Next]_vars

\* ------------------------------------------------- helpers of the claims
\* a * b as <<high, low>> in base 2^30, for a, b in 0 .. 2^30: the products
\* of two u128 amounts do not fit the model checker's integers.
WideMul(a, b) ==
    LET h == 2^15
        ah == a \div h
        al == a % h
        bh == b \div h
        bl == b % h
        m == ah * bl + al * bh
        lo == al * bl + (m % h) * h
    IN  <<ah * bh + (m \div h) + (lo \div (h * h)), lo % (h * h)>>

\* a * b >= c * d
ProductGeq(a, b, c, d) ==
    LET x == WideMul(a, b)
        y == WideMul(c, d)
    IN  x[1] > y[1] \/ (x[1] = y[1] /\ x[2] >= y[2])

\* check_curve_value_from_swap: the (token 0, token 1) amounts of a
\* (source, destination) pair under a trade direction.
SwapTokenAmounts(trade_direction, source, destination) ==
    IF trade_direction = "ZeroForOne" THEN <<source, destination>>
    ELSE <<destination, source>>

InU64(x) == 1 <= x /\ x <= U64_MAX

\* --------------------------------------------------------------- claims

\* C1: whenever swap_base_input returns a SwapResult, the product of the new
\* reserves is at least the product of the old reserves.
C1_SwapBaseInputKeepsProduct ==
    (op = "swap_base_input" /\ IsSome(result)) =>
        ProductGeq(result[2].new_swap_source_amount,
                   result[2].new_swap_destination_amount,
                   args.swap_source_amount, args.swap_destination_amount)

\* C1 witness: an exact-input swap that charged a fee and paid out.
C1_Witness ==
    /\ op = "swap_base_input"
    /\ IsSome(result)
    /\ result[2].trade_fee > 0
    /\ result[2].destination_amount_swapped > 0
    /\ args.swap_source_amount > 0

\* C2: whenever swap_base_output returns a SwapResult, the product of the
\* new reserves is at least the product of the old reserves.
C2_SwapBaseOutputKeepsProduct ==
    (op = "swap_base_output" /\ IsSome(result)) =>
        ProductGeq(result[2].new_swap_source_amount,
                   result[2].new_swap_destination_amount,
                   args.swap_source_amount, args.swap_destination_amount)

\* C2 witness: an exact-output swap that charged a fee and paid out.
C2_Witness ==
    /\ op = "swap_base_output"
    /\ IsSome(result)
    /\ result[2].trade_fee > 0
    /\ result[2].destination_amount_swapped > 0
    /\ args.swap_source_amount > 0

\* C3: for source_in >= 1 and both reserves >= 1, when the fee-free curve
\* swap returns destination_out, destination_out <= reserve_destination and
\* the product of the token amounts after the swap is at least the product
\* before it, under either trade direction.
C3_CurveSwapKeepsProduct ==
    (/\ op = "swap_base_input_without_fees"
     /\ args.source_amount >= 1
     /\ args.swap_source_amount >= 1
     /\ args.swap_destination_amount >= 1
     /\ IsSome(result)) =>
        /\ result[2] <= args.swap_destination_amount
        /\ \A trade_direction \in TradeDirection :
            LET old == SwapTokenAmounts(trade_direction, args.swap_source_amount,
                                        args.swap_destination_amount)
                new == SwapTokenAmounts(trade_direction,
                                        args.swap_source_amount + args.source_amount,
                                        args.swap_destination_amount - result[2])
            IN  ProductGeq(new[1], new[2], old[1], old[2])

\* C3 witness: a fee-free swap that truncated a non-zero output.
C3_Witness ==
    /\ op = "swap_base_input_without_fees"
    /\ IsSome(result)
    /\ args.swap_source_amount >= 1
    /\ result[2] >= 1
    /\ (args.source_amount * args.swap_destination_amount)
          % (args.swap_source_amount + args.source_amount) > 0

\* C4: for a rate below the denominator, when calculate_pre_fee_amount
\* returns pre and trading_fee(pre, rate) returns fee, pre - fee is exactly
\* the post-fee amount; and in every SwapResult of swap_base_output the
\* source amount less the trade fee is the curve's input.
C4_FeeRoundTripExact ==
    /\ (/\ op = "calculate_pre_fee_amount"
        /\ args.trade_fee_rate < FEE_RATE_DENOMINATOR_VALUE
        /\ IsSome(result)
        /\ IsSome(trading_fee(result[2], args.trade_fee_rate))) =>
            result[2] - trading_fee(result[2], args.trade_fee_rate)[2]
                = args.post_fee_amount
    /\ (op = "swap_base_output" /\ IsSome(result)) =>
            Some(result[2].source_amount_swapped - result[2].trade_fee)
                = swap_base_output_without_fees(args.destination_amount,
                      args.swap_source_amount, args.swap_destination_amount)

\* C4 witness: a gross amount above the post-fee amount, with its fee.
C4_Witness ==
    /\ op = "calculate_pre_fee_amount"
    /\ args.trade_fee_rate > 0
    /\ IsSome(result)
    /\ result[2] > args.post_fee_amount + 1
    /\ IsSome(trading_fee(result[2], args.trade_fee_rate))

\* The deposit inequality of check_pool_value_from_deposit for one side:
\* (reserve + amount) * supply >= reserve * (supply + lp_token_amount).
DepositSideKeepsValue(reserve, amount) ==
    ProductGeq(reserve + amount, args.lp_token_supply,
               reserve, args.lp_token_supply + args.lp_token_amount)

\* C5 as stated: for every Ceiling conversion that returns, the deposit
\* inequality holds on both sides.
C5_DepositNeverDilutes ==
    (/\ op = "lp_tokens_to_trading_tokens"
     /\ args.round_direction = "Ceiling"
     /\ IsSome(result)) =>
        /\ DepositSideKeepsValue(args.swap_token_0_amount, result[2].token_0_amount)
        /\ DepositSideKeepsValue(args.swap_token_1_amount, result[2].token_1_amount)

\* C5 amended: for every Ceiling conversion that returns, the deposit
\* inequality holds on each side whose returned amount is at least one or
\* whose lp_token_amount * reserve is zero.
C5_DepositNeverDilutesNonZeroSide ==
    (/\ op = "lp_tokens_to_trading_tokens"
     /\ args.round_direction = "Ceiling"
     /\ IsSome(result)) =>
        /\ (result[2].token_0_amount >= 1
              \/ args.lp_token_amount = 0 \/ args.swap_token_0_amount = 0) =>
            DepositSideKeepsValue(args.swap_token_0_amount, result[2].token_0_amount)
        /\ (result[2].token_1_amount >= 1
              \/ args.lp_token_amount = 0 \/ args.swap_token_1_amount = 0) =>
            DepositSideKeepsValue(args.swap_token_1_amount, result[2].token_1_amount)

\* C5 witness: a Ceiling conversion that rounded one side up.
C5_Witness ==
    /\ op = "lp_tokens_to_trading_tokens"
    /\ args.round_direction = "Ceiling"
    /\ IsSome(result)
    /\ args.lp_token_supply <= U64_MAX
    /\ result[2].token_0_amount >= 1
    /\ result[2].token_0_amount * args.lp_token_supply
          > args.lp_token_amount * args.swap_token_0_amount

\* C6: for amount, supply and reserves in 1 .. u64::MAX with a floored
\* amount of at least one on both sides, the Ceiling conversion returns and
\* the deposit inequality holds on both sides.
C6_DepositNeverDilutesFromOneToken ==
    (/\ op = "lp_tokens_to_trading_tokens"
     /\ args.round_direction = "Ceiling"
     /\ InU64(args.lp_token_amount)
     /\ InU64(args.lp_token_supply)
     /\ InU64(args.swap_token_0_amount)
     /\ InU64(args.swap_token_1_amount)
     /\ (args.lp_token_amount * args.swap_token_0_amount) \div args.lp_token_supply >= 1
     /\ (args.lp_token_amount * args.swap_token_1_amount) \div args.lp_token_supply >= 1) =>
        /\ IsSome(result)
        /\ DepositSideKeepsValue(args.swap_token_0_amount, result[2].token_0_amount)
        /\ DepositSideKeepsValue(args.swap_token_1_amount, result[2].token_1_amount)

\* C6 witness: such a deposit whose second side was rounded up.
C6_Witness ==
    /\ op = "lp_tokens_to_trading_tokens"
    /\ args.round_direction = "Ceiling"
    /\ InU64(args.lp_token_amount)
    /\ InU64(args.lp_token_supply)
    /\ InU64(args.swap_token_0_amount)
    /\ InU64(args.swap_token_1_amount)
    /\ (args.lp_token_amount * args.swap_token_0_amount) \div args.lp_token_supply >= 1
    /\ (args.lp_token_amount * args.swap_token_1_amount) \div args.lp_token_supply >= 1
    /\ (args.lp_token_amount * args.swap_token_1_amount) % args.lp_token_supply > 0
    /\ IsSome(result)

\* C7: for 1 <= lp_token_amount < lp_token_supply and reserves in the u64
\* range with a floored amount of at least one on both sides, the Floor
\* conversion returns (a0, a1) with a_i <= reserve_i and
\* (reserve0 - a0) * (reserve1 - a1) * supply^2
\*     >= reserve0 * reserve1 * (supply - lp_token_amount)^2.
C7_WithdrawKeepsValuePerShare ==
    (/\ op = "lp_tokens_to_trading_tokens"
     /\ args.round_direction = "Floor"
     /\ InU64(args.lp_token_amount)
     /\ InU64(args.lp_token_supply)
     /\ args.lp_token_amount < args.lp_token_supply
     /\ InU64(args.swap_token_0_amount)
     /\ InU64(args.swap_token_1_amount)
     /\ (args.lp_token_amount * args.swap_token_0_amount) \div args.lp_token_supply >= 1
     /\ (args.lp_token_amount * args.swap_token_1_amount) \div args.lp_token_supply >= 1) =>
        /\ IsSome(result)
        /\ result[2].token_0_amount <= args.swap_token_0_amount
        /\ result[2].token_1_amount <= args.swap_token_1_amount
        /\ (args.swap_token_0_amount - result[2].token_0_amount)
             * (args.swap_token_1_amount - result[2].token_1_amount)
             * args.lp_token_supply * args.lp_token_supply
           >= args.swap_token_0_amount * args.swap_token_1_amount
                * (args.lp_token_supply - args.lp_token_amount)
                * (args.lp_token_supply - args.lp_token_amount)

\* C7 witness: such a withdrawal that truncated a remainder on a side.
C7_Witness ==
    /\ op = "lp_tokens_to_trading_tokens"
    /\ args.round_direction = "Floor"
    /\ InU64(args.lp_token_amount)
    /\ InU64(args.lp_token_supply)
    /\ args.lp_token_amount < args.lp_token_supply
    /\ InU64(args.swap_token_0_amount)
    /\ InU64(args.swap_token_1_amount)
    /\ (args.lp_token_amount * args.swap_token_0_amount) \div args.lp_token_supply >= 1
    /\ (args.lp_token_amount * args.swap_token_1_amount) \div args.lp_token_supply >= 1
    /\ (args.lp_token_amount * args.swap_token_0_amount) % args.lp_token_supply > 0
    /\ IsSome(result)

\* C8: no public operation aborts: every call returns a value or None.
C8_NoUncontrolledAbort ==
    result # Panic

\* C9: swap_base_output called with destination_amount >=
\* swap_destination_amount, or with a non-zero trade_fee_rate >= 1,000,000,
\* returns None to its caller.
C9_SwapBaseOutputRejectsWithNone ==
    (/\ op = "swap_base_output"
     /\ \/ args.destination_amount >= args.swap_destination_amount
        \/ (args.trade_fee_rate >= FEE_RATE_DENOMINATOR_VALUE /\ args.trade_fee_rate # 0)) =>
        result = None

\* C10 as stated: whenever source_in * reserve_destination fits in u128 and
\* reserve_source + source_in > 0, swap_base_input_without_fees returns
\* floor(source_in * reserve_destination / (reserve_source + source_in)).
C10_CurveOutputIsFloor ==
    (/\ op = "swap_base_input_without_fees"
     /\ IsSome(checked_mul(args.source_amount, args.swap_destination_amount))
     /\ args.swap_source_amount + args.source_amount > 0) =>
        result = Some((args.source_amount * args.swap_destination_amount)
                        \div (args.swap_source_amount + args.source_amount))

\* C10 amended: whenever source_in * reserve_destination and
\* reserve_source + source_in both fit in u128 and the sum is non-zero,
\* swap_base_input_without_fees returns exactly the floor of the quotient,
\* which times the divisor never exceeds the dividend.
C10_CurveOutputIsFloorWhenSumFits ==
    (/\ op = "swap_base_input_without_fees"
     /\ IsSome(checked_mul(args.source_amount, args.swap_destination_amount))
     /\ args.swap_source_amount + args.source_amount > 0
     /\ args.swap_source_amount + args.source_amount <= U128_MAX) =>
        /\ result = Some((args.source_amount * args.swap_destination_amount)
                           \div (args.swap_source_amount + args.source_amount))
        /\ result[2] * (args.swap_source_amount + args.source_amount)
              <= args.source_amount * args.swap_destination_amount

\* C10 witness: a fee-free swap whose exact quotient is not an integer.
C10_Witness ==
    /\ op = "swap_base_input_without_fees"
    /\ IsSome(result)
    /\ args.swap_source_amount + args.source_amount > 0
    /\ result[2] * (args.swap_source_amount + args.source_amount)
          < args.source_amount * args.swap_destination_amount

\* ceil(a / b) for b > 0
Ceil(a, b) == (a + b - 1) \div b

\* C11: for destination_out < reserve_destination and a product that fits
\* in u128, swap_base_output_without_fees returns exactly
\* ceil(reserve_source * destination_out / (reserve_destination -
\* destination_out)), also when the quotient is below one; the amount
\* charged times the divisor is never less than the dividend.
C11_CurveInputIsCeil ==
    (/\ op = "swap_base_output_without_fees"
     /\ args.destination_amount < args.swap_destination_amount
     /\ IsSome(checked_mul(args.swap_source_amount, args.destination_amount))) =>
        /\ result = Some(Ceil(args.swap_source_amount * args.destination_amount,
                              args.swap_destination_amount - args.destination_amount))
        /\ ProductGeq(result[2], args.swap_destination_amount - args.destination_amount,
                      args.swap_source_amount * args.destination_amount, 1)

\* C11 witness: a non-zero quotient below one, charged as 1.
C11_Witness ==
    /\ op = "swap_base_output_without_fees"
    /\ args.destination_amount < args.swap_destination_amount
    /\ IsSome(checked_mul(args.swap_source_amount, args.destination_amount))
    /\ args.swap_source_amount * args.destination_amount > 0
    /\ args.swap_source_amount * args.destination_amount
          < args.swap_destination_amount - args.destination_amount
    /\ result = Some(1)

\* C12 as stated: whenever amount * rate + 999,999 fits in u128,
\* trading_fee returns exactly ceil(amount * rate / 1,000,000): 0 when
\* amount or rate is 0, at least 1 when amount * rate > 0.
C12_TradingFeeIsCeil ==
    (/\ op = "trading_fee"
     /\ IsSome(checked_mul(args.amount, args.trade_fee_rate))
     /\ args.amount * args.trade_fee_rate + (FEE_RATE_DENOMINATOR_VALUE - 1)
           <= U128_MAX) =>
        /\ result = Some(Ceil(args.amount * args.trade_fee_rate,
                              FEE_RATE_DENOMINATOR_VALUE))
        /\ (args.amount = 0 \/ args.trade_fee_rate = 0) => result = Some(0)
        /\ args.amount * args.trade_fee_rate > 0 => result[2] >= 1

\* C12 amended: the same, whenever amount * rate + 1,000,000 fits in u128.
C12_TradingFeeIsCeilWhenSumFits ==
    (/\ op = "trading_fee"
     /\ IsSome(checked_mul(args.amount, args.trade_fee_rate))
     /\ args.amount * args.trade_fee_rate + FEE_RATE_DENOMINATOR_VALUE
           <= U128_MAX) =>
        /\ result = Some(Ceil(args.amount * args.trade_fee_rate,
                              FEE_RATE_DENOMINATOR_VALUE))
        /\ (args.amount = 0 \/ args.trade_fee_rate = 0) => result = Some(0)
        /\ args.amount * args.trade_fee_rate > 0 => result[2] >= 1

\* C12 witness: a fee rounded up from a fraction.
C12_Witness ==
    /\ op = "trading_fee"
    /\ IsSome(result)
    /\ result[2] >= 2
    /\ (args.amount * args.trade_fee_rate) % FEE_RATE_DENOMINATOR_VALUE > 0

\* C13: whenever trading_fee_amount * protocol_rate fits in u128,
\* protocol_fee returns exactly floor(trading_fee_amount * protocol_rate /
\* 1,000,000), which never exceeds trading_fee_amount for a rate <=
\* 1,000,000; and in every SwapResult produced with protocol_fee_rate <=
\* 1,000,000, protocol_fee <= trade_fee.
C13_ProtocolFeeIsFloor ==
    /\ (/\ op = "protocol_fee"
        /\ IsSome(checked_mul(args.amount, args.protocol_fee_rate))) =>
            /\ result = Some((args.amount * args.protocol_fee_rate)
                               \div FEE_RATE_DENOMINATOR_VALUE)
            /\ args.protocol_fee_rate <= FEE_RATE_DENOMINATOR_VALUE =>
                   result[2] <= args.amount
    /\ (/\ op \in {"swap_base_input", "swap_base_output"}
        /\ IsSome(result)
        /\ args.protocol_fee_rate <= FEE_RATE_DENOMINATOR_VALUE) =>
            result[2].protocol_fee <= result[2].trade_fee

\* C13 witness: a non-zero protocol fee that dropped a remainder.
C13_Witness ==
    /\ op = "protocol_fee"
    /\ IsSome(result)
    /\ result[2] >= 1
    /\ args.protocol_fee_rate < FEE_RATE_DENOMINATOR_VALUE
    /\ (args.amount * args.protocol_fee_rate) % FEE_RATE_DENOMINATOR_VALUE > 0

\* C14 as stated: at rate 0 calculate_pre_fee_amount returns
\* post_fee_amount; for 0 < rate < 1,000,000 with post_fee_amount *
\* 1,000,000 fitting in u128 it returns exactly ceil(post_fee_amount *
\* 1,000,000 / (1,000,000 - rate)); for rate >= 1,000,000 it returns None
\* for every post_fee_amount.
C14_PreFeeAmountIsCeil ==
    (op = "calculate_pre_fee_amount") =>
        /\ args.trade_fee_rate = 0 => result = Some(args.post_fee_amount)
        /\ (/\ 0 < args.trade_fee_rate
            /\ args.trade_fee_rate < FEE_RATE_DENOMINATOR_VALUE
            /\ IsSome(checked_mul(args.post_fee_amount, FEE_RATE_DENOMINATOR_VALUE))) =>
               result = Some(Ceil(args.post_fee_amount * FEE_RATE_DENOMINATOR_VALUE,
                                  FEE_RATE_DENOMINATOR_VALUE - args.trade_fee_rate))
        /\ args.trade_fee_rate >= FEE_RATE_DENOMINATOR_VALUE => result = None

\* C14 amended: the same, the middle case whenever post_fee_amount *
\* 1,000,000 + (1,000,000 - rate) fits in u128.
C14_PreFeeAmountIsCeilWhenSumFits ==
    (op = "calculate_pre_fee_amount") =>
        /\ args.trade_fee_rate = 0 => result = Some(args.post_fee_amount)
        /\ (/\ 0 < args.trade_fee_rate
            /\ args.trade_fee_rate < FEE_RATE_DENOMINATOR_VALUE
            /\ IsSome(checked_mul(args.post_fee_amount, FEE_RATE_DENOMINATOR_VALUE))
            /\ args.post_fee_amount * FEE_RATE_DENOMINATOR_VALUE
                 + (FEE_RATE_DENOMINATOR_VALUE - args.trade_fee_rate) <= U128_MAX) =>
               result = Some(Ceil(args.post_fee_amount * FEE_RATE_DENOMINATOR_VALUE,
                                  FEE_RATE_DENOMINATOR_VALUE - args.trade_fee_rate))
        /\ args.trade_fee_rate >= FEE_RATE_DENOMINATOR_VALUE => result = None

\* C14 witness: a gross amount rounded up from a fraction.
C14_Witness ==
    /\ op = "calculate_pre_fee_amount"
    /\ 0 < args.trade_fee_rate
    /\ args.trade_fee_rate < FEE_RATE_DENOMINATOR_VALUE
    /\ IsSome(result)
    /\ result[2] > args.post_fee_amount
    /\ (args.post_fee_amount * FEE_RATE_DENOMINATOR_VALUE)
          % (FEE_RATE_DENOMINATOR_VALUE - args.trade_fee_rate) > 0

\* floor(share_amount * reserve / share_supply) and the remainder
LpFloor(reserve) == (args.lp_token_amount * reserve) \div args.lp_token_supply

LpRemainder(reserve) == (args.lp_token_amount * reserve) % args.lp_token_supply

\* The amount the rounding rule gives one side.
LpRounded(reserve) ==
    IF args.round_direction = "Ceiling" /\ LpRemainder(reserve) > 0 /\ LpFloor(reserve) > 0
    THEN LpFloor(reserve) + 1
    ELSE LpFloor(reserve)

\* C15: on success lp_tokens_to_trading_tokens returns, for each side
\* independently, f_i = floor(share_amount * reserve_i / share_supply) under
\* Floor, and under Ceiling f_i + 1 if the remainder and f_i are both
\* non-zero, else f_i; so Ceiling never turns a zero floored amount into 1
\* and exceeds Floor by at most 1; (5, 10, 2, 49, Ceiling) yields (1, 25).
C15_LpRoundingRule ==
    /\ (op = "lp_tokens_to_trading_tokens" /\ IsSome(result)) =>
        /\ result[2].token_0_amount = LpRounded(args.swap_token_0_amount)
        /\ result[2].token_1_amount = LpRounded(args.swap_token_1_amount)
        /\ LpFloor(args.swap_token_0_amount) = 0 => result[2].token_0_amount = 0
        /\ LpFloor(args.swap_token_1_amount) = 0 => result[2].token_1_amount = 0
        /\ result[2].token_0_amount - LpFloor(args.swap_token_0_amount) \in {0, 1}
        /\ result[2].token_1_amount - LpFloor(args.swap_token_1_amount) \in {0, 1}
    /\ (/\ op = "lp_tokens_to_trading_tokens"
        /\ args = [lp_token_amount |-> 5, lp_token_supply |-> 10,
                   swap_token_0_amount |-> 2, swap_token_1_amount |-> 49,
                   round_direction |-> "Ceiling"]) =>
            result = Some([token_0_amount |-> 1, token_1_amount |-> 25])

\* C15 witness: a Ceiling conversion that rounded one side up and left the
\* other, with a zero floored amount and a remainder, at zero.
C15_Witness ==
    /\ op = "lp_tokens_to_trading_tokens"
    /\ args.round_direction = "Ceiling"
    /\ IsSome(result)
    /\ result[2].token_0_amount = 0
    /\ LpRemainder(args.swap_token_0_amount) > 0
    /\ result[2].token_1_amount = LpFloor(args.swap_token_1_amount) + 1

\* C16: lp_tokens_to_trading_tokens returns None, in either rounding
\* direction, whenever share_amount * reserve0 or share_amount * reserve1
\* overflows u128 (also when the other reserve is 0) or share_supply is 0.
C16_LpConversionFailsWithNone ==
    (/\ op = "lp_tokens_to_trading_tokens"
     /\ \/ checked_mul(args.lp_token_amount, args.swap_token_0_amount) = None
        \/ checked_mul(args.lp_token_amount, args.swap_token_1_amount) = None
        \/ args.lp_token_supply = 0) =>
        result = None

\* C16 witness: the conversion (5, 10, 0, u128::MAX) of the repository's
\* failure test, whose second product overflows.
C16_Witness ==
    /\ op = "lp_tokens_to_trading_tokens"
    /\ args.lp_token_amount = 5
    /\ args.lp_token_supply = 10
    /\ args.swap_token_0_amount = 0
    /\ args.swap_token_1_amount = U128_MAX
    /\ result = None

C18_SwapBaseOutputComposition ==
    (op = "swap_base_output" /\ IsSome(result)) =>
        LET source_before_fees ==
                Ceil(args.swap_source_amount * args.destination_amount,
                     args.swap_destination_amount - args.destination_amount)
            source_amount == result[2].source_amount_swapped
            trade_fee == Ceil(source_amount * args.trade_fee_rate,
                              FEE_RATE_DENOMINATOR_VALUE)
        IN  /\ Some(source_amount)
                  = calculate_pre_fee_amount(source_before_fees, args.trade_fee_rate)
            /\ result[2].trade_fee = trade_fee
            /\ result[2].protocol_fee
                  = (trade_fee * args.protocol_fee_rate) \div FEE_RATE_DENOMINATOR_VALUE
            /\ result[2].destination_amount_swapped = args.destination_amount
            /\ result[2].new_swap_source_amount = args.swap_source_amount + source_amount
            /\ result[2].new_swap_destination_amount
                  = args.swap_destination_amount - args.destination_amount

\* C18 witness: an exact-output swap whose gross amount exceeds the curve's
\* input and carries a protocol fee.
C18_Witness ==
    /\ op = "swap_base_output"
    /\ IsSome(result)
    /\ result[2].trade_fee > 0
    /\ result[2].protocol_fee > 0
    /\ args.destination_amount > 0

\* The exact-input swap of the source amount an exact-output swap quoted,
\* on the same reserves and rates.
InputSwapOfQuote ==
    swap_base_input(result[2].source_amount_swapped, args.swap_source_amount,
                    args.swap_destination_amount, args.trade_fee_rate,
                    args.protocol_fee_rate)

\* C19: whenever swap_base_output returns a SwapResult with
\* source_amount_swapped = s and swap_base_input(s, ...) on the same
\* reserves and rates returns a SwapResult too, the latter delivers at
\* least the requested destination amount and charges the same trade fee and
\* protocol fee.
C19_QuoteIsSufficient ==
    (/\ op = "swap_base_output"
     /\ IsSome(result)
     /\ IsSome(InputSwapOfQuote)) =>
        /\ InputSwapOfQuote[2].destination_amount_swapped >= args.destination_amount
        /\ InputSwapOfQuote[2].trade_fee = result[2].trade_fee
        /\ InputSwapOfQuote[2].protocol_fee = result[2].protocol_fee

\* C19 witness: a quote with a fee whose exact-input swap returns.
C19_Witness ==
    /\ op = "swap_base_output"
    /\ IsSome(result)
    /\ result[2].trade_fee > 0
    /\ args.destination_amount > 0
    /\ IsSome(InputSwapOfQuote)

====
